---- MODULE Spec2Model ----
(***************************************************************************)
(* Model of Vector<T> (vector.h) on top of RawMemory<T> (raw_memory.h).    *)
(*                                                                         *)
(* heap maps a buffer address to the slots of that buffer; a slot is Raw   *)
(* (no object) or holds the value of a constructed element.  A vector is   *)
(* the record of its fields: data_.buffer_, data_.capacity_, size_.        *)
(* Offsets are 0-based as in the source; sequences are 1-based.            *)
(*                                                                         *)
(* The element type T is described by three traits, fixed for a behaviour: *)
(*   nothrowMove        std::is_nothrow_move_constructible_v<T>            *)
(*   copyable           std::is_copy_constructible_v<T>                    *)
(*   nothrowMoveAssign  T's move assignment does not throw; the source     *)
(*                      never tests it, std::move, std::move_backward and  *)
(*                      data_[distance] = std::move(tmp) just assign       *)
(* Every call takes a fault f: 0 no failure, AllocFault the allocation     *)
(* throws, f >= 1 the f-th element operation of the call that is allowed   *)
(* to throw throws.  A throwing element operation leaves its operands      *)
(* as they were.                                                           *)
(*                                                                         *)
(* A call is one step; it records itself and its outcome in last, and the  *)
(* caller takes the outcome (Return) before its next call.                 *)
(***************************************************************************)
EXTENDS Integers, Sequences, FiniteSets, TLC

VARIABLES vec, heap, T, last, plog

vars == <<vec, heap, T, last, plog>>

\* ---- bounds ----
MaxCap == 4
MaxVal == 1
MaxPush == 6

\* ---- slot contents ----
Raw == -1
MovedFrom == -2
Default == 0

Names == {"a", "b"}
NoName == "-"
Values == 0..MaxVal
AllocFault == 0 - 1
BufIds == 1..(Cardinality(Names) + 1)
nullptr == 0

Min(x, y) == IF x < y THEN x ELSE y
Max(x, y) == IF x > y THEN x ELSE y

\* ---- raw storage ----
RawSlots(n) == [i \in 1..n |-> Raw]

LiveCount(s) == Cardinality({j \in 1..Len(s) : s[j] # Raw})

FreshBuf(H) == CHOOSE id \in BufIds : H[id] = <<>> /\ \A j \in BufIds : j < id => H[j] # <<>>

BufSlots(H, id) == IF id = nullptr THEN <<>> ELSE H[id]

SetBuf(H, id, s) == IF id = nullptr THEN H ELSE [H EXCEPT ![id] = s]

Deallocate(H, id) == IF id = nullptr THEN H ELSE [H EXCEPT ![id] = <<>>]

Slots(H, V) == BufSlots(H, V.buffer_)

Elems(H, V) == SubSeq(Slots(H, V), 1, V.size_)

\* operator[](index)
Index(H, V, index) == Slots(H, V)[index + 1]

EmptyVector == [alive |-> TRUE, buffer_ |-> nullptr, capacity_ |-> 0, size_ |-> 0]

NoVector == [alive |-> FALSE, buffer_ |-> nullptr, capacity_ |-> 0, size_ |-> 0]

\* ---- element-level algorithms; c counts down to the throwing operation ----
ElemFault(f) == IF f > 0 THEN f ELSE 0

ThrowAt(c, n, canThrow) == IF canThrow /\ c >= 1 /\ c <= n THEN c ELSE 0

Rest(c, n, canThrow) == IF ~canThrow THEN c ELSE IF c > n THEN c - n ELSE 0

Put(s, i, v) == [s EXCEPT ![i + 1] = v]

DestroyN(s, i, n) == [j \in 1..Len(s) |-> IF j - 1 >= i /\ j - 1 < i + n THEN Raw ELSE s[j]]

\* mutant: on a throw the copies made so far stay
UninitializedCopyNNoRollback(src, i, n, dst, j, c) ==
    LET t == ThrowAt(c, n, TRUE)
        done == IF t > 0 THEN t - 1 ELSE n
    IN [ok |-> t = 0, src |-> src,
        dst |-> [p \in 1..Len(dst) |-> IF p - 1 >= j /\ p - 1 < j + done THEN src[i + (p - j)] ELSE dst[p]],
        c |-> IF t > 0 THEN 0 ELSE Rest(c, n, TRUE)]

\* std::uninitialized_copy_n: on a throw the copies made so far are destroyed
UninitializedCopyN(src, i, n, dst, j, c) ==
    LET t == ThrowAt(c, n, TRUE) IN
    IF t > 0
    THEN [ok |-> FALSE, src |-> src, dst |-> DestroyN(dst, j, t - 1), c |-> 0]
    ELSE [ok |-> TRUE, src |-> src,
          dst |-> [p \in 1..Len(dst) |-> IF p - 1 >= j /\ p - 1 < j + n THEN src[i + (p - j)] ELSE dst[p]],
          c |-> Rest(c, n, TRUE)]

\* std::uninitialized_move_n: the sources moved so far stay moved-from
UninitializedMoveN(src, i, n, dst, j, c) ==
    LET t == ThrowAt(c, n, ~T.nothrowMove)
        done == IF t > 0 THEN t - 1 ELSE n
        msrc == [p \in 1..Len(src) |-> IF p - 1 >= i /\ p - 1 < i + done THEN MovedFrom ELSE src[p]]
    IN
    IF t > 0
    THEN [ok |-> FALSE, src |-> msrc, dst |-> DestroyN(dst, j, t - 1), c |-> 0]
    ELSE [ok |-> TRUE, src |-> msrc,
          dst |-> [p \in 1..Len(dst) |-> IF p - 1 >= j /\ p - 1 < j + n THEN src[i + (p - j)] ELSE dst[p]],
          c |-> Rest(c, n, ~T.nothrowMove)]

\* mutant: on a throw the elements constructed so far stay
UninitializedValueConstructNNoRollback(dst, j, n, c) ==
    LET t == ThrowAt(c, n, TRUE)
        done == IF t > 0 THEN t - 1 ELSE n
    IN [ok |-> t = 0,
        dst |-> [p \in 1..Len(dst) |-> IF p - 1 >= j /\ p - 1 < j + done THEN Default ELSE dst[p]],
        c |-> IF t > 0 THEN 0 ELSE Rest(c, n, TRUE)]

\* mutant: constructs one element too few
UninitializedValueConstructNShort(dst, j, n, c) ==
    [ok |-> TRUE,
     dst |-> [p \in 1..Len(dst) |-> IF p - 1 >= j /\ p - 1 < j + n - 1 THEN Default ELSE dst[p]],
     c |-> Rest(c, n, TRUE)]

\* std::uninitialized_value_construct_n
UninitializedValueConstructN(dst, j, n, c) ==
    LET t == ThrowAt(c, n, TRUE) IN
    IF t > 0
    THEN [ok |-> FALSE, dst |-> DestroyN(dst, j, t - 1), c |-> 0]
    ELSE [ok |-> TRUE,
          dst |-> [p \in 1..Len(dst) |-> IF p - 1 >= j /\ p - 1 < j + n THEN Default ELSE dst[p]],
          c |-> Rest(c, n, TRUE)]

\* mutant: assigns one element too few
CopyNShort(src, i, n, dst, j, c) ==
    [ok |-> TRUE,
     dst |-> [p \in 1..Len(dst) |-> IF p - 1 >= j /\ p - 1 < j + n - 1 THEN src[i + (p - j)] ELSE dst[p]],
     c |-> Rest(c, n, TRUE)]

\* std::copy_n (copy assignment): the assignments made before a throw stay
CopyN(src, i, n, dst, j, c) ==
    LET t == ThrowAt(c, n, TRUE)
        done == IF t > 0 THEN t - 1 ELSE n
    IN [ok |-> t = 0,
        dst |-> [p \in 1..Len(dst) |-> IF p - 1 >= j /\ p - 1 < j + done THEN src[i + (p - j)] ELSE dst[p]],
        c |-> IF t > 0 THEN 0 ELSE Rest(c, n, TRUE)]

\* one move assignment  s[to] = std::move(s[from])
MoveAssign(s, from, to) == IF from = to THEN s ELSE [s EXCEPT ![to + 1] = s[from + 1], ![from + 1] = MovedFrom]

\* the first j assignments of std::move_backward(first, last, d_last)
RECURSIVE MoveBackwardSteps(_, _, _, _)
MoveBackwardSteps(s, lst, dlast, j) ==
    IF j = 0 THEN s
    ELSE MoveBackwardSteps(MoveAssign(s, lst - 1, dlast - 1), lst - 1, dlast - 1, j - 1)

\* mutant: leaves the first element of the range where it is
MoveBackwardShort(s, first, lst, dlast, c) ==
    [ok |-> TRUE, dst |-> MoveBackwardSteps(s, lst, dlast, Max(lst - first - 1, 0)), c |-> c]

MoveBackward(s, first, lst, dlast, c) ==
    LET n == lst - first
        t == ThrowAt(c, n, ~T.nothrowMoveAssign)
        done == IF t > 0 THEN t - 1 ELSE n
    IN [ok |-> t = 0, dst |-> MoveBackwardSteps(s, lst, dlast, done),
        c |-> IF t > 0 THEN 0 ELSE Rest(c, n, ~T.nothrowMoveAssign)]

\* the first j assignments of std::move(first, last, d_first)
RECURSIVE MoveSteps(_, _, _, _)
MoveSteps(s, first, dfirst, j) ==
    IF j = 0 THEN s
    ELSE MoveSteps(MoveAssign(s, first, dfirst), first + 1, dfirst + 1, j - 1)

\* mutant: leaves the last element of the range where it is
MoveShort(s, first, lst, dfirst, c) ==
    [ok |-> TRUE, dst |-> MoveSteps(s, first, dfirst, Max(lst - first - 1, 0)), c |-> c]

Move(s, first, lst, dfirst, c) ==
    LET n == lst - first
        t == ThrowAt(c, n, ~T.nothrowMoveAssign)
        done == IF t > 0 THEN t - 1 ELSE n
    IN [ok |-> t = 0, dst |-> MoveSteps(s, first, dfirst, done),
        c |-> IF t > 0 THEN 0 ELSE Rest(c, n, ~T.nothrowMoveAssign)]

\* ---- results of a call: new heap, new vector, normal return or throw, ----
\* ---- returned offset, elements still constructed in released storage,  ----
\* ---- elements constructed, remaining fault count                       ----
Res(H, V, ok, ret, leak, ctors, c) ==
    [h |-> H, v |-> V, ok |-> ok, ret |-> ret, leak |-> leak, ctors |-> ctors, c |-> c]

\* RawMemory::Allocate(n) calls operator new only for n # 0
AllocThrows(n, f) == n # 0 /\ f = AllocFault

\* mutant: moves whatever the traits are
UseMoveAlways == TRUE

\* if constexpr of UninitializedMoveOrCopy
UseMove == T.nothrowMove \/ ~T.copyable

\* mutant: transfers one element too few
UninitializedMoveOrCopyShort(src, i, n, dst, j, c) ==
    IF UseMove THEN UninitializedMoveN(src, i, Max(n - 1, 0), dst, j, c)
    ELSE UninitializedCopyN(src, i, Max(n - 1, 0), dst, j, c)

UninitializedMoveOrCopy(src, i, n, dst, j, c) ==
    IF UseMove THEN UninitializedMoveN(src, i, n, dst, j, c)
    ELSE UninitializedCopyN(src, i, n, dst, j, c)

\* mutant: reallocates when the capacity asked for is the one it has
ReserveIsNoopStrict(new_capacity, capacity) == new_capacity < capacity

ReserveIsNoop(new_capacity, capacity) == new_capacity <= capacity

\* mutant: gives up the old buffer before it asks for the new one
ReserveOpReleaseFirst(H, V, new_capacity, f) ==
    IF ReserveIsNoop(new_capacity, V.capacity_) THEN Res(H, V, TRUE, 0, 0, 0, ElemFault(f))
    ELSE IF AllocThrows(new_capacity, f)
    THEN Res(Deallocate(H, V.buffer_), [V EXCEPT !.buffer_ = nullptr, !.capacity_ = 0, !.size_ = 0],
             FALSE, 0, 0, 0, 0)
    ELSE
      LET nb == FreshBuf(H)
          r == UninitializedMoveOrCopy(Slots(H, V), 0, V.size_, RawSlots(new_capacity), 0, ElemFault(f))
      IN
      IF ~r.ok
      THEN Res(SetBuf(H, V.buffer_, r.src), V, FALSE, 0, LiveCount(r.dst), 0, 0)
      ELSE
        LET old == DestroyN(r.src, 0, V.size_) IN
        Res([Deallocate(H, V.buffer_) EXCEPT ![nb] = r.dst],
            [V EXCEPT !.buffer_ = nb, !.capacity_ = new_capacity],
            TRUE, 0, LiveCount(old), V.size_, r.c)

ReserveOp(H, V, new_capacity, f) ==
    IF ReserveIsNoop(new_capacity, V.capacity_) THEN Res(H, V, TRUE, 0, 0, 0, ElemFault(f))
    ELSE IF AllocThrows(new_capacity, f) THEN Res(H, V, FALSE, 0, 0, 0, 0)
    ELSE
      LET nb == FreshBuf(H)
          r == UninitializedMoveOrCopy(Slots(H, V), 0, V.size_, RawSlots(new_capacity), 0, ElemFault(f))
      IN
      IF ~r.ok
      THEN Res(SetBuf(H, V.buffer_, r.src), V, FALSE, 0, LiveCount(r.dst), 0, 0)
      ELSE
        LET old == DestroyN(r.src, 0, V.size_) IN
        Res([Deallocate(H, V.buffer_) EXCEPT ![nb] = r.dst],
            [V EXCEPT !.buffer_ = nb, !.capacity_ = new_capacity],
            TRUE, 0, LiveCount(old), V.size_, r.c)

\* mutant: grows by one slot
NewCapacityByOne(size) == IF size = 0 THEN 1 ELSE size + 1

NewCapacity(size) == IF size = 0 THEN 1 ELSE size * 2

EmplaceWithReallocation(H, V, distance, val, f) ==
    LET ncap == NewCapacity(V.size_) IN
    IF AllocThrows(ncap, f) THEN Res(H, V, FALSE, 0, 0, 0, 0)
    ELSE IF ElemFault(f) = 1 THEN Res(H, V, FALSE, 0, 0, 0, 0)
    ELSE
      LET nb == FreshBuf(H)
          new0 == Put(RawSlots(ncap), distance, val)
          p == UninitializedMoveOrCopy(Slots(H, V), 0, distance, new0, 0, Rest(ElemFault(f), 1, TRUE))
      IN
      IF ~p.ok
      THEN Res(SetBuf(H, V.buffer_, p.src), V, FALSE, 0, LiveCount(DestroyN(p.dst, distance, 1)), 0, 0)
      ELSE
        LET s == UninitializedMoveOrCopy(p.src, distance, V.size_ - distance, p.dst, distance + 1, p.c) IN
        IF ~s.ok
        THEN Res(SetBuf(H, V.buffer_, s.src), V, FALSE, 0, LiveCount(DestroyN(s.dst, 0, distance + 1)), 0, 0)
        ELSE
          LET old == DestroyN(s.src, 0, V.size_) IN
          Res([Deallocate(H, V.buffer_) EXCEPT ![nb] = s.dst],
              [V EXCEPT !.buffer_ = nb, !.capacity_ = ncap],
              TRUE, 0, LiveCount(old), 1 + V.size_, s.c)

EmplaceWithoutReallocation(H, V, distance, val, f) ==
    LET s0 == Slots(H, V) IN
    IF ElemFault(f) = 1 THEN Res(H, V, FALSE, 0, 0, 0, 0)
    ELSE IF distance = V.size_
    THEN Res(SetBuf(H, V.buffer_, Put(s0, V.size_, val)), V, TRUE, 0, 0, 1, 0)
    ELSE
      LET c1 == Rest(ElemFault(f), 1, TRUE)
          m == UninitializedMoveN(s0, V.size_ - 1, 1, s0, V.size_, c1)
      IN
      IF ~m.ok THEN Res(H, V, FALSE, 0, 0, 0, 0)
      ELSE
        LET s1 == Put(m.dst, V.size_ - 1, MovedFrom)
            b == MoveBackward(s1, distance, V.size_ - 1, V.size_, m.c)
        IN
        IF ~b.ok THEN Res(SetBuf(H, V.buffer_, b.dst), V, FALSE, 0, 0, 0, 0)
        ELSE IF ThrowAt(b.c, 1, ~T.nothrowMoveAssign) = 1
        THEN Res(SetBuf(H, V.buffer_, b.dst), V, FALSE, 0, 0, 0, 0)
        ELSE Res(SetBuf(H, V.buffer_, Put(b.dst, distance, val)), V, TRUE, 0, 0, 2, 0)

\* mutant: reallocates one element before the buffer is full
EmplaceOpEarly(H, V, distance, val, f) ==
    LET r == IF V.size_ + 1 >= V.capacity_
             THEN EmplaceWithReallocation(H, V, distance, val, f)
             ELSE EmplaceWithoutReallocation(H, V, distance, val, f)
    IN IF ~r.ok THEN r
       ELSE [r EXCEPT !.v = [r.v EXCEPT !.size_ = r.v.size_ + 1], !.ret = distance]

EmplaceOp(H, V, distance, val, f) ==
    LET r == IF V.size_ = V.capacity_
             THEN EmplaceWithReallocation(H, V, distance, val, f)
             ELSE EmplaceWithoutReallocation(H, V, distance, val, f)
    IN IF ~r.ok THEN r
       ELSE [r EXCEPT !.v = [r.v EXCEPT !.size_ = r.v.size_ + 1], !.ret = distance]

\* mutant: the element is assigned from the argument after the shift, when
\* the slot the argument refers to holds something else
EmplaceSelfOpLate(H, V, distance, i, f) ==
    LET shifted == EmplaceOp(H, V, distance, MovedFrom, f)
        s == Slots(shifted.h, shifted.v)
    IN IF ~shifted.ok THEN shifted
       ELSE [shifted EXCEPT !.h = SetBuf(shifted.h, shifted.v.buffer_, Put(s, distance, s[i + 1]))]

\* Emplace(pos, data_[i]): the argument is a reference to slot i; T(args) of
\* EmplaceWithReallocation and of both branches of EmplaceWithoutReallocation
\* (the new element, or tmp) reads it before any slot is transferred or shifted
EmplaceSelfOp(H, V, distance, i, f) == EmplaceOp(H, V, distance, Index(H, V, i), f)

\* mutant: destroys the last element and keeps size_
PopBackOpKeepSize(H, V) ==
    Res(SetBuf(H, V.buffer_, DestroyN(Slots(H, V), V.size_ - 1, 1)), V, TRUE, 0, 0, 0, 0)

PopBackOp(H, V) ==
    Res(SetBuf(H, V.buffer_, DestroyN(Slots(H, V), V.size_ - 1, 1)),
        [V EXCEPT !.size_ = V.size_ - 1], TRUE, 0, 0, 0, 0)

EraseOp(H, V, distance, f) ==
    LET m == Move(Slots(H, V), distance + 1, V.size_, distance, ElemFault(f)) IN
    IF ~m.ok THEN Res(SetBuf(H, V.buffer_, m.dst), V, FALSE, 0, 0, 0, 0)
    ELSE [PopBackOp(SetBuf(H, V.buffer_, m.dst), V) EXCEPT !.ret = distance]

\* mutant: grows without Reserve(new_size)
ResizeOpNoReserve(H, V, new_size, f) ==
    IF V.size_ = new_size THEN Res(H, V, TRUE, 0, 0, 0, 0)
    ELSE IF new_size < V.size_
    THEN Res(SetBuf(H, V.buffer_, DestroyN(Slots(H, V), new_size, V.size_ - new_size)),
             [V EXCEPT !.size_ = new_size], TRUE, 0, 0, 0, 0)
    ELSE
      LET u == UninitializedValueConstructN(Slots(H, V), V.size_, new_size - V.size_, ElemFault(f)) IN
      IF ~u.ok THEN Res(SetBuf(H, V.buffer_, u.dst), V, FALSE, 0, 0, 0, 0)
      ELSE Res(SetBuf(H, V.buffer_, u.dst), [V EXCEPT !.size_ = new_size], TRUE, 0, 0, 0, 0)

ResizeOp(H, V, new_size, f) ==
    IF V.size_ = new_size THEN Res(H, V, TRUE, 0, 0, 0, 0)
    ELSE IF new_size < V.size_
    THEN Res(SetBuf(H, V.buffer_, DestroyN(Slots(H, V), new_size, V.size_ - new_size)),
             [V EXCEPT !.size_ = new_size], TRUE, 0, 0, 0, 0)
    ELSE
      LET r == ReserveOp(H, V, new_size, f) IN
      IF ~r.ok THEN r
      ELSE
        LET u == UninitializedValueConstructN(Slots(r.h, r.v), V.size_, new_size - V.size_, r.c) IN
        IF ~u.ok THEN Res(SetBuf(r.h, r.v.buffer_, u.dst), r.v, FALSE, 0, r.leak, 0, 0)
        ELSE Res(SetBuf(r.h, r.v.buffer_, u.dst), [r.v EXCEPT !.size_ = new_size], TRUE, 0, r.leak, 0, 0)

\* Vector(size_t size): the result is the new object, none on a throw
SizedCtorOp(H, size, f) ==
    IF AllocThrows(size, f) THEN Res(H, NoVector, FALSE, 0, 0, 0, 0)
    ELSE
      LET nb == IF size = 0 THEN nullptr ELSE FreshBuf(H)
          u == UninitializedValueConstructN(RawSlots(size), 0, size, ElemFault(f))
      IN
      IF ~u.ok THEN Res(H, NoVector, FALSE, 0, LiveCount(u.dst), 0, 0)
      ELSE Res(SetBuf(H, nb, u.dst),
               [alive |-> TRUE, buffer_ |-> nb, capacity_ |-> size, size_ |-> size], TRUE, 0, 0, size, 0)

\* mutant: copies the fields, not the elements
CopyCtorOpShallow(H, other, f) == Res(H, other, TRUE, 0, 0, 0, 0)

\* Vector(const Vector& other)
CopyCtorOp(H, other, f) ==
    IF AllocThrows(other.size_, f) THEN Res(H, NoVector, FALSE, 0, 0, 0, 0)
    ELSE
      LET nb == IF other.size_ = 0 THEN nullptr ELSE FreshBuf(H)
          u == UninitializedCopyN(Slots(H, other), 0, other.size_, RawSlots(other.size_), 0, ElemFault(f))
      IN
      IF ~u.ok THEN Res(H, NoVector, FALSE, 0, LiveCount(u.dst), 0, 0)
      ELSE Res(SetBuf(H, nb, u.dst),
               [alive |-> TRUE, buffer_ |-> nb, capacity_ |-> other.size_, size_ |-> other.size_],
               TRUE, 0, 0, other.size_, 0)

\* ~Vector() followed by ~RawMemory() of data_
DtorOp(H, V) ==
    LET old == DestroyN(Slots(H, V), 0, V.size_) IN
    Res(Deallocate(H, V.buffer_), NoVector, TRUE, 0, LiveCount(old), 0, 0)

\* mutant: copy-and-swap whatever the capacity is
CopyAssignOpAlwaysSwap(H, V, rhs, f) ==
    LET rhs_copy == CopyCtorOp(H, rhs, f) IN
    IF ~rhs_copy.ok THEN Res(H, V, FALSE, 0, rhs_copy.leak, 0, 0)
    ELSE
      LET d == DtorOp(rhs_copy.h, V) IN
      Res(d.h, rhs_copy.v, TRUE, 0, d.leak, 0, 0)

\* Vector& operator=(const Vector& rhs), this != &rhs
CopyAssignOp(H, V, rhs, f) ==
    IF rhs.size_ > V.capacity_
    THEN
      LET rhs_copy == CopyCtorOp(H, rhs, f) IN
      IF ~rhs_copy.ok THEN Res(H, V, FALSE, 0, rhs_copy.leak, 0, 0)
      ELSE
        LET d == DtorOp(rhs_copy.h, V) IN
        Res(d.h, rhs_copy.v, TRUE, 0, d.leak, 0, 0)
    ELSE
      LET a == CopyN(Slots(H, rhs), 0, Min(V.size_, rhs.size_), Slots(H, V), 0, ElemFault(f)) IN
      IF ~a.ok THEN Res(SetBuf(H, V.buffer_, a.dst), V, FALSE, 0, 0, 0, 0)
      ELSE IF rhs.size_ < V.size_
      THEN Res(SetBuf(H, V.buffer_, DestroyN(a.dst, rhs.size_, V.size_ - rhs.size_)),
               [V EXCEPT !.size_ = rhs.size_], TRUE, 0, 0, 0, 0)
      ELSE
        LET u == UninitializedCopyN(Slots(H, rhs), V.size_, rhs.size_ - V.size_, a.dst, V.size_, a.c) IN
        IF ~u.ok THEN Res(SetBuf(H, V.buffer_, u.dst), V, FALSE, 0, 0, 0, 0)
        ELSE Res(SetBuf(H, V.buffer_, u.dst), [V EXCEPT !.size_ = rhs.size_], TRUE, 0, 0, 0, 0)

\* mutant: leaves rhs.size_ as it was
MoveAssignOpKeepSize(H, V, rhs, self) ==
    IF self THEN [h |-> H, v |-> V, rhs |-> V, leak |-> 0]
    ELSE [h |-> Deallocate(H, V.buffer_),
          v |-> [V EXCEPT !.buffer_ = rhs.buffer_, !.capacity_ = rhs.capacity_, !.size_ = rhs.size_],
          rhs |-> [rhs EXCEPT !.buffer_ = nullptr, !.capacity_ = 0],
          leak |-> LiveCount(Slots(H, V))]

\* RawMemory& operator=(RawMemory&& rhs) followed by size_ = std::exchange(rhs.size_, 0);
\* with this == &rhs the buffer is kept and size_ gets its own old value back
MoveAssignOp(H, V, rhs, self) ==
    IF self THEN [h |-> H, v |-> V, rhs |-> V, leak |-> 0]
    ELSE [h |-> Deallocate(H, V.buffer_),
          v |-> [V EXCEPT !.buffer_ = rhs.buffer_, !.capacity_ = rhs.capacity_, !.size_ = rhs.size_],
          rhs |-> [rhs EXCEPT !.buffer_ = nullptr, !.capacity_ = 0, !.size_ = 0],
          leak |-> LiveCount(Slots(H, V))]

\* mutant: swaps data_ and leaves each size_ where it is
SwapOpKeepSize(V, other) ==
    [v |-> [V EXCEPT !.buffer_ = other.buffer_, !.capacity_ = other.capacity_],
     other |-> [other EXCEPT !.buffer_ = V.buffer_, !.capacity_ = V.capacity_]]

\* std::swap of data_ and of size_
SwapOp(V, other) ==
    [v |-> [V EXCEPT !.buffer_ = other.buffer_, !.capacity_ = other.capacity_, !.size_ = other.size_],
     other |-> [other EXCEPT !.buffer_ = V.buffer_, !.capacity_ = V.capacity_, !.size_ = V.size_]]

\* ---- history of the last call and of the PushBack calls since Vector() ----
\* last keeps the arguments of a call that returned, and the size and capacity
\* its vector had before the call; of a call that threw it keeps what was
\* thrown, "alloc" (std::bad_alloc) or "elem" (an element operation), and in arg
\* which of the call's element operations threw
\* req is the size or offset the call was given, returned or thrown
Status(ok, f) == IF ok THEN "ok" ELSE IF f = AllocFault THEN "alloc" ELSE "elem"

Called(op, x, y, arg, val, ok, f, ret, leak) ==
    [op |-> op, x |-> x, y |-> y, arg |-> IF ok THEN arg ELSE f, val |-> IF ok THEN val ELSE 0,
     req |-> arg, ok |-> ok, st |-> Status(ok, f), ret |-> ret, leak |-> leak,
     size0 |-> IF x \in Names THEN vec[x].size_ ELSE 0,
     cap0 |-> IF x \in Names THEN vec[x].capacity_ ELSE 0]

\* no call made, or its outcome taken
Idle == Called("Init", NoName, NoName, 0, 0, TRUE, 0, 0, 0)

\* a fault the environment injects is one the call runs into
Injected(f, ok) == f # 0 => ~ok

NoLog == [valid |-> FALSE, seq |-> <<>>, ctors |-> 0]

NewLog == [valid |-> TRUE, seq |-> <<>>, ctors |-> 0]

\* a call on x with result r that touches no other vector
Step(op, x, arg, val, f, r) ==
    /\ Injected(f, r.ok)
    /\ vec' = [vec EXCEPT ![x] = r.v]
    /\ heap' = r.h
    /\ last' = Called(op, x, NoName, arg, val, r.ok, f, r.ret, r.leak)
    /\ plog' = [plog EXCEPT ![x] =
                  IF op = "PushBack" /\ r.ok /\ plog[x].valid
                  THEN [valid |-> TRUE, seq |-> Append(plog[x].seq, val), ctors |-> plog[x].ctors + r.ctors]
                  ELSE NoLog]
    /\ UNCHANGED T

\* the element types: nothing in a move throws; only the move assignment
\* throws; the move constructor throws too, with and without a copy
\* constructor.  A type with a non-throwing move and no copy constructor
\* takes the same paths as the first two kinds, with fewer calls available,
\* and a throwing move constructor with a non-throwing move assignment fails
\* in a subset of the places of the last two
TypeKinds ==
    {[nothrowMove |-> TRUE, copyable |-> TRUE, nothrowMoveAssign |-> TRUE],
     [nothrowMove |-> TRUE, copyable |-> TRUE, nothrowMoveAssign |-> FALSE],
     [nothrowMove |-> FALSE, copyable |-> TRUE, nothrowMoveAssign |-> FALSE],
     [nothrowMove |-> FALSE, copyable |-> FALSE, nothrowMoveAssign |-> FALSE]}

Init ==
    /\ vec = [x \in Names |-> EmptyVector]
    /\ heap = [id \in BufIds |-> <<>>]
    /\ T \in TypeKinds
    /\ last = Idle
    /\ plog = [x \in Names |-> NewLog]

\* ---- one action per public operation ----
DefaultCtor(x) ==
    /\ ~vec[x].alive
    /\ vec' = [vec EXCEPT ![x] = EmptyVector]
    /\ last' = Called("Vector", x, NoName, 0, 0, TRUE, 0, 0, 0)
    /\ plog' = [plog EXCEPT ![x] = NewLog]
    /\ UNCHANGED <<heap, T>>

SizedCtor(x, n, f) ==
    /\ ~vec[x].alive
    /\ Step("VectorSized", x, n, 0, f, SizedCtorOp(heap, n, f))

CopyCtor(x, y, f) ==
    /\ ~vec[x].alive /\ vec[y].alive /\ T.copyable
    /\ LET r == CopyCtorOp(heap, vec[y], f) IN
       /\ Injected(f, r.ok)
       /\ vec' = [vec EXCEPT ![x] = r.v]
       /\ heap' = r.h
       /\ last' = Called("VectorCopy", x, y, 0, 0, r.ok, f, 0, r.leak)
       /\ plog' = [plog EXCEPT ![x] = NoLog]
          /\ UNCHANGED T

MoveCtor(x, y) ==
    /\ ~vec[x].alive /\ vec[y].alive
    /\ LET r == MoveAssignOp(heap, EmptyVector, vec[y], FALSE) IN
       /\ vec' = [vec EXCEPT ![x] = r.v, ![y] = r.rhs]
       /\ heap' = r.h
       /\ last' = Called("VectorMove", x, y, 0, 0, TRUE, 0, 0, r.leak)
       /\ plog' = [z \in Names |-> NoLog]
       /\ UNCHANGED T

Dtor(x) ==
    /\ vec[x].alive
    /\ Step("Dtor", x, 0, 0, 0, DtorOp(heap, vec[x]))

CopyAssign(x, y, f) ==
    /\ vec[x].alive /\ vec[y].alive /\ T.copyable
    /\ LET r == IF x = y THEN Res(heap, vec[x], TRUE, 0, 0, 0, 0)
                ELSE CopyAssignOp(heap, vec[x], vec[y], f) IN
       /\ Injected(f, r.ok)
       /\ vec' = [vec EXCEPT ![x] = r.v]
       /\ heap' = r.h
       /\ last' = Called("CopyAssign", x, y, 0, 0, r.ok, f, 0, r.leak)
       /\ plog' = [plog EXCEPT ![x] = NoLog]
          /\ UNCHANGED T

MoveAssignment(x, y) ==
    /\ vec[x].alive /\ vec[y].alive
    /\ LET r == MoveAssignOp(heap, vec[x], vec[y], x = y) IN
       /\ vec' = [z \in Names |-> IF z = x THEN r.v ELSE IF z = y THEN r.rhs ELSE vec[z]]
       /\ heap' = r.h
       /\ last' = Called("MoveAssign", x, y, 0, 0, TRUE, 0, 0, r.leak)
       /\ plog' = [z \in Names |-> IF z \in {x, y} THEN NoLog ELSE plog[z]]
       /\ UNCHANGED T

Swap(x, y) ==
    /\ vec[x].alive /\ vec[y].alive
    /\ LET r == SwapOp(vec[x], vec[y]) IN
       /\ vec' = [z \in Names |-> IF z = x THEN r.v ELSE IF z = y THEN r.other ELSE vec[z]]
       /\ last' = Called("Swap", x, y, 0, 0, TRUE, 0, 0, 0)
       /\ plog' = [z \in Names |-> IF z \in {x, y} THEN NoLog ELSE plog[z]]
       /\ UNCHANGED <<heap, T>>

Resize(x, n, f) ==
    /\ vec[x].alive
    /\ Step("Resize", x, n, 0, f, ResizeOp(heap, vec[x], n, f))

Reserve(x, n, f) ==
    /\ vec[x].alive
    /\ Step("Reserve", x, n, 0, f, ReserveOp(heap, vec[x], n, f))

\* PushBack and EmplaceBack forward to Emplace(cend(), value)
PushBack(x, val, f) ==
    /\ vec[x].alive
    /\ Step("PushBack", x, vec[x].size_, val, f, EmplaceOp(heap, vec[x], vec[x].size_, val, f))

\* Insert forwards to Emplace(pos, value)
Insert(x, k, val, f) ==
    /\ vec[x].alive /\ k <= vec[x].size_
    /\ Step("Insert", x, k, val, f, EmplaceOp(heap, vec[x], k, val, f))

\* Insert(pos, (*this)[i]); val of the call is the slot i
InsertSelf(x, k, i, f) ==
    /\ vec[x].alive /\ k <= vec[x].size_ /\ i < vec[x].size_ /\ T.copyable
    /\ Step("InsertSelf", x, k, i, f, EmplaceSelfOp(heap, vec[x], k, i, f))

Erase(x, k, f) ==
    /\ vec[x].alive /\ k < vec[x].size_
    /\ Step("Erase", x, k, 0, f, EraseOp(heap, vec[x], k, f))

PopBack(x) ==
    /\ vec[x].alive /\ vec[x].size_ > 0
    /\ Step("PopBack", x, 0, 0, 0, PopBackOp(heap, vec[x]))

\* operator[](index) = val
Write(x, i, val) ==
    /\ vec[x].alive /\ i < vec[x].size_
    /\ Step("Write", x, i, val, 0, Res(SetBuf(heap, vec[x].buffer_, Put(Slots(heap, vec[x]), i, val)), vec[x], TRUE, 0, 0, 0, 0))

\* ---- specifications ----
\* the storage in use stays within a bound
TotalCapacity(v) == v["a"].capacity_ + v["b"].capacity_

UpTo(n) == AllocFault..n

\* the faults injected into a call that performs at most n element operations
FaultsOf(inject, n) == IF inject THEN UpTo(n) ELSE {0}

\* calls on one vector
Call(x, inject) ==
    \/ DefaultCtor(x)
    \/ \E n \in 0..MaxCap : \E f \in FaultsOf(inject, n) : SizedCtor(x, n, f)
    \/ Dtor(x)
    \/ \E n \in 0..MaxCap : \E f \in FaultsOf(inject, Max(n, vec[x].size_)) : Resize(x, n, f)
    \/ \E n \in 0..MaxCap, f \in FaultsOf(inject, vec[x].size_) : Reserve(x, n, f)
    \/ \E val \in Values, f \in FaultsOf(inject, vec[x].size_ + 1) : PushBack(x, val, f)
    \/ \E k \in 0..MaxCap, val \in Values, f \in FaultsOf(inject, vec[x].size_ + 2) : Insert(x, k, val, f)
    \/ \E k \in 0..MaxCap, f \in FaultsOf(inject, vec[x].size_) : Erase(x, k, f)
    \/ PopBack(x)

\* calls on one vector of a type whose moves do not throw that fail: the
\* allocation throws, or the construction of a new element does
Failing(x) ==
    \/ \E n \in 0..MaxCap : \E f \in (1..n) \cup {AllocFault} : SizedCtor(x, n, f)
    \/ \E n \in 0..MaxCap : \E f \in (1..n) \cup {AllocFault} : Resize(x, n, f)
    \/ \E n \in 0..MaxCap : Reserve(x, n, AllocFault)
    \/ \E val \in Values, f \in {1, AllocFault} : PushBack(x, val, f)
    \/ \E k \in 0..MaxCap, val \in Values, f \in {1, AllocFault} : Insert(x, k, val, f)

\* calls that take a second vector
Call2(x, y) ==
    \/ \E f \in UpTo(vec[y].size_) : CopyCtor(x, y, f)
    \/ MoveCtor(x, y)
    \/ \E f \in UpTo(Max(vec[x].size_, vec[y].size_)) : CopyAssign(x, y, f)
    \/ MoveAssignment(x, y)
    \/ Swap(x, y)

\* the caller takes the outcome of its call, a return or an exception, before
\* it makes the next call
Return ==
    /\ last # Idle
    /\ last' = Idle
    /\ UNCHANGED <<vec, heap, T, plog>>

Next ==
    /\ IF last # Idle THEN Return
       ELSE \/ Call("a", TRUE)
            \/ \E k \in 0..MaxCap, i \in 0..MaxCap :
                  \E f \in FaultsOf(TRUE, vec["a"].size_ + 2) : InsertSelf("a", k, i, f)
    /\ TotalCapacity(vec') <= MaxCap

Spec == Init /\ [][Next]_vars

\* the two-vector calls copy elements or hand over buffers whatever the
\* traits are, so one copyable type stands for all; its moves do not throw,
\* and Failing has every failure of its single-vector calls
InitPair ==
    Init /\ T = [nothrowMove |-> TRUE, copyable |-> TRUE,
                 nothrowMoveAssign |-> TRUE]

NextPair ==
    /\ IF last # Idle THEN Return
       ELSE \E x \in Names :
               \/ Call(x, FALSE)
               \/ Failing(x)
               \/ \E i \in 0..MaxCap, val \in Values : Write(x, i, val)
               \/ \E y \in Names : Call2(x, y)
    /\ TotalCapacity(vec') <= MaxCap

SpecPair == InitPair /\ [][NextPair]_vars

TypeOK ==
    /\ \A x \in Names : vec[x].size_ \in 0..MaxCap /\ vec[x].capacity_ \in 0..MaxCap
    /\ \A x \in Names : Len(Slots(heap, vec[x])) = vec[x].capacity_

\* ---- properties ----

\* C1: after N PushBack calls on a default-constructed vector, Size() is N
\* and operator[](i) returns the (i+1)-th pushed value, whatever the number
\* of reallocations.
C1_PushBackSequence ==
    \A x \in Names : plog[x].valid =>
        /\ vec[x].alive
        /\ vec[x].size_ = Len(plog[x].seq)
        /\ \A i \in 0..(vec[x].size_ - 1) : Index(heap, vec[x], i) = plog[x].seq[i + 1]

C1_Witness ==
    /\ plog["a"].valid /\ Len(plog["a"].seq) = 3 /\ vec["a"].capacity_ = 4
    /\ plog["a"].seq[1] # plog["a"].seq[2]
    /\ last.op = "PushBack" /\ last.cap0 < vec["a"].capacity_

\* C2: after every public operation, returned or thrown, the slots [0, size)
\* hold constructed elements and the slots [size, capacity) hold none.
C2_LivePrefix ==
    \A x \in Names : vec[x].alive =>
        \A i \in 0..(vec[x].capacity_ - 1) : (i < vec[x].size_) <=> (Index(heap, vec[x], i) # Raw)

\* C3: no call releases a buffer whose slots still hold constructed elements.
C3_DestroyBeforeRelease == last.leak = 0

\* C4: move construction and move assignment from a distinct vector empty the
\* source and give the target the source's size, capacity and elements in
\* order; they return normally.
C4_MoveTransfers ==
    [][(last'.op \in {"VectorMove", "MoveAssign"} /\ last'.x # last'.y) =>
        LET x == last'.x
            y == last'.y
        IN /\ last'.ok
           /\ vec'[y].size_ = 0 /\ vec'[y].capacity_ = 0
           /\ vec'[x].size_ = vec[y].size_ /\ vec'[x].capacity_ = vec[y].capacity_
           /\ Elems(heap', vec'[x]) = Elems(heap, vec[y])]_vars

C4_Witness ==
    /\ last.op = "MoveAssign" /\ last.x # last.y /\ last.size0 > 0
    /\ vec[last.x].size_ = 2 /\ Index(heap, vec[last.x], 0) # Index(heap, vec[last.x], 1)
    /\ vec[last.y].size_ = 0 /\ vec[last.y].capacity_ = 0

\* C5: a copy-constructed vector has the source's size as size and capacity,
\* equal elements, and storage of its own; a call on one vector leaves every
\* other vector's size, capacity and elements as they were.
MutatingCalls == {"PushBack", "Insert", "Erase", "PopBack", "Resize", "Reserve", "Write"}

NoSharedStorage(v) ==
    \A x \in Names, y \in Names :
        (x # y /\ v[x].buffer_ # nullptr) => v[x].buffer_ # v[y].buffer_

C5_CopyIsIndependent ==
    [][/\ (last'.op = "VectorCopy" /\ last'.ok) =>
            LET x == last'.x
                y == last'.y
            IN /\ vec'[x].size_ = vec[y].size_ /\ vec'[x].capacity_ = vec[y].size_
               /\ Elems(heap', vec'[x]) = Elems(heap, vec[y])
               /\ vec'[y] = vec[y] /\ Elems(heap', vec'[y]) = Elems(heap, vec[y])
       /\ NoSharedStorage(vec')
       /\ last'.op \in MutatingCalls =>
            \A z \in Names \ {last'.x} :
                vec'[z] = vec[z] /\ Elems(heap', vec'[z]) = Elems(heap, vec[z])]_vars

C5_Witness ==
    /\ last.op \in MutatingCalls /\ last.x = "b"
    /\ vec["a"].size_ > 0 /\ vec["b"].size_ > 0
    /\ vec["a"].buffer_ # vec["b"].buffer_
    /\ Elems(heap, vec["a"]) # Elems(heap, vec["b"])

\* C6: for a type with a non-throwing move or a copy constructor, an
\* insertion that reallocates and fails in an element operation leaves the
\* vector's fields and every buffer as before the call, and the new buffer is
\* released with nothing constructed in it.
C6_ReallocInsertStrong ==
    [][(/\ last'.op \in {"Insert", "PushBack"} /\ last'.st = "elem"
        /\ vec[last'.x].size_ = vec[last'.x].capacity_
        /\ (T.nothrowMove \/ T.copyable)) =>
            vec' = vec /\ heap' = heap /\ last'.leak = 0]_vars

C6_Witness ==
    /\ last.op = "Insert" /\ last.st = "elem" /\ last.arg >= 3
    /\ last.size0 = last.cap0 /\ last.size0 >= 2
    /\ T.copyable /\ ~T.nothrowMove

\* C7: Reserve(n) with n <= Capacity() changes nothing; with n > Capacity()
\* the capacity becomes n and the size and the elements stay.
C7_Reserve ==
    [][(last'.op = "Reserve" /\ last'.ok) =>
        LET x == last'.x
            n == last'.arg
        IN IF n <= vec[x].capacity_
           THEN vec'[x] = vec[x] /\ heap' = heap
           ELSE /\ vec'[x].capacity_ = n
                /\ vec'[x].size_ = vec[x].size_
                /\ Elems(heap', vec'[x]) = Elems(heap, vec[x])]_vars

C7_Witness ==
    /\ last.op = "Reserve" /\ last.ok /\ last.arg > last.cap0 /\ last.size0 >= 2
    /\ vec[last.x].capacity_ = last.arg
    /\ Index(heap, vec[last.x], 0) # Index(heap, vec[last.x], 1)

\* C8: Resize(n) changes nothing for n = size; for n < size it keeps the
\* elements [0, n) and the capacity; for n > size it keeps the elements,
\* value-initializes [size, n) and the capacity becomes max(capacity, n).
C8_Resize ==
    [][(last'.op = "Resize" /\ last'.ok) =>
        LET x == last'.x
            n == last'.arg
            old == Elems(heap, vec[x])
            new == Elems(heap', vec'[x])
        IN IF n = vec[x].size_ THEN vec'[x] = vec[x] /\ heap' = heap
           ELSE IF n < vec[x].size_
           THEN /\ new = SubSeq(old, 1, n)
                /\ vec'[x].size_ = n
                /\ vec'[x].capacity_ = vec[x].capacity_
                /\ vec'[x].buffer_ = vec[x].buffer_
           ELSE /\ new = old \o [i \in 1..(n - vec[x].size_) |-> Default]
                /\ vec'[x].size_ = n
                /\ vec'[x].capacity_ = Max(vec[x].capacity_, n)]_vars

C8_Witness ==
    /\ last.op = "Resize" /\ last.ok /\ last.arg > last.cap0 /\ last.size0 >= 1
    /\ vec[last.x].size_ = last.arg
    /\ Index(heap, vec[last.x], 0) # Default

\* C9: a successful Emplace/Insert/PushBack of v at offset k gives
\* old[0..k) ++ [v] ++ old[k..size), a size one larger, and returns offset k,
\* with and without reallocation; sized(5) then insert(10) at 2 gives
\* [0,0,10,0,0,0].
C9_Scenario ==
    LET sized == SizedCtorOp([id \in BufIds |-> <<>>], 5, 0)
        r == EmplaceOp(sized.h, sized.v, 2, 10, 0)
    IN /\ sized.ok /\ sized.v.size_ = 5 /\ Elems(sized.h, sized.v) = <<0, 0, 0, 0, 0>>
       /\ r.ok /\ r.v.size_ = 6 /\ Elems(r.h, r.v) = <<0, 0, 10, 0, 0, 0>>

C9_InsertAt ==
    [][(last'.op \in {"Insert", "PushBack"} /\ last'.ok) =>
        LET x == last'.x
            k == last'.arg
            old == Elems(heap, vec[x])
        IN /\ Elems(heap', vec'[x]) = SubSeq(old, 1, k) \o <<last'.val>> \o SubSeq(old, k + 1, Len(old))
           /\ vec'[x].size_ = vec[x].size_ + 1
           /\ last'.ret = k
           /\ C9_Scenario]_vars

C9_Witness ==
    /\ last.op = "Insert" /\ last.ok /\ last.size0 < last.cap0
    /\ last.arg = 1 /\ last.size0 = 3
    /\ Index(heap, vec[last.x], 0) # Index(heap, vec[last.x], 1)
    /\ Index(heap, vec[last.x], 2) # Index(heap, vec[last.x], 3)

\* C10: a successful Erase at offset k gives old[0..k) ++ old[k+1..size), a
\* size one smaller and the same capacity, and returns offset k, which is
\* end() when the last element was removed.
C10_EraseAt ==
    [][(last'.op = "Erase" /\ last'.ok) =>
        LET x == last'.x
            k == last'.arg
            old == Elems(heap, vec[x])
        IN /\ Elems(heap', vec'[x]) = SubSeq(old, 1, k) \o SubSeq(old, k + 2, Len(old))
           /\ vec'[x].size_ = vec[x].size_ - 1
           /\ vec'[x].capacity_ = vec[x].capacity_
           /\ last'.ret = k
           /\ (k = vec[x].size_ - 1 => last'.ret = vec'[x].size_)]_vars

C10_Witness ==
    /\ last.op = "Erase" /\ last.ok /\ last.arg = 1 /\ last.size0 = 4
    /\ Index(heap, vec[last.x], 0) # Index(heap, vec[last.x], 1)
    /\ Index(heap, vec[last.x], 1) # Index(heap, vec[last.x], 2)

\* C11: Insert of v at offset k followed at once by Erase at offset k gives
\* back the size and the element sequence the vector had, with and without
\* reallocation.
C11_InsertThenErase ==
    [][(last'.op \in {"Insert", "PushBack"} /\ last'.ok) =>
        LET x == last'.x
            k == last'.arg
            e == EraseOp(heap', vec'[x], k, 0)
        IN /\ e.ok
           /\ e.v.size_ = vec[x].size_
           /\ Elems(e.h, e.v) = Elems(heap, vec[x])
           /\ e.v.capacity_ = vec'[x].capacity_ /\ e.v.capacity_ >= vec[x].capacity_]_vars

C11_Witness ==
    /\ last.op = "Insert" /\ last.ok /\ last.arg = 1
    /\ last.size0 = 2 /\ last.cap0 = 2 /\ vec[last.x].capacity_ = 4
    /\ Index(heap, vec[last.x], 0) # Index(heap, vec[last.x], 2)

\* C12: after a copy assignment a = b that returned, a has b's size and
\* elements and b is as it was; a's capacity is b's size when that exceeded
\* a's capacity, and a keeps its capacity and buffer otherwise; a = a changes
\* nothing.
C12_CopyAssign ==
    [][(last'.op = "CopyAssign" /\ last'.ok) =>
        LET x == last'.x
            y == last'.y
        IN IF x = y THEN vec' = vec /\ heap' = heap
           ELSE /\ vec'[x].size_ = vec[y].size_
                /\ Elems(heap', vec'[x]) = Elems(heap, vec[y])
                /\ vec'[y] = vec[y] /\ Elems(heap', vec'[y]) = Elems(heap, vec[y])
                /\ IF vec[y].size_ > vec[x].capacity_
                   THEN vec'[x].capacity_ = vec[y].size_
                   ELSE /\ vec'[x].capacity_ = vec[x].capacity_
                        /\ vec'[x].buffer_ = vec[x].buffer_
                        /\ \A i \in vec[y].size_..(vec[x].capacity_ - 1) :
                              Index(heap', vec'[x], i) = Raw]_vars

C12_Witness ==
    /\ last.op = "CopyAssign" /\ last.ok /\ last.x # last.y
    /\ last.size0 = 2 /\ last.cap0 = 2 /\ vec[last.x].capacity_ = 2
    /\ vec[last.x].size_ = 1 /\ vec[last.y].size_ = 1
    /\ Index(heap, vec[last.x], 0) # Default

\* C13: a copy assignment a = b that throws in an element copy assignment or
\* copy construction leaves a's size, capacity and every element as before
\* the call, on the copy-and-swap path and on the element-wise path.
C13_CopyAssignStrong ==
    [][(last'.op = "CopyAssign" /\ last'.st = "elem") =>
        LET x == last'.x
        IN /\ vec'[x].size_ = vec[x].size_
           /\ vec'[x].capacity_ = vec[x].capacity_
           /\ Elems(heap', vec'[x]) = Elems(heap, vec[x])]_vars

\* C14: a Resize(n), n > size, that throws in the default construction of a
\* new element destroys the elements it constructed and leaves the elements
\* [0, size), the size and the capacity as before the call.
C14_ResizeStrong ==
    [][(/\ last'.op = "Resize" /\ last'.st = "elem"
        /\ last'.req > vec[last'.x].size_
        /\ ReserveOp(heap, vec[last'.x], last'.req, last'.arg).ok) =>
        LET x == last'.x
        IN /\ vec'[x].size_ = vec[x].size_
           /\ Elems(heap', vec'[x]) = Elems(heap, vec[x])
           /\ \A i \in vec[x].size_..(last'.req - 1) : Index(heap', vec'[x], i) = Raw
           /\ vec'[x].capacity_ = vec[x].capacity_]_vars

\* C15: a Reserve, Resize, reallocating Emplace/Insert/PushBack or copy
\* assignment whose allocation fails throws and leaves the vector's buffer,
\* capacity, size and elements, and every other buffer, as they were.
AllocatingCalls == {"Reserve", "Resize", "Insert", "PushBack", "CopyAssign"}

C15_AllocationFailure ==
    [][(last'.op \in AllocatingCalls /\ last'.st = "alloc") =>
        /\ ~last'.ok
        /\ vec' = vec /\ heap' = heap
        /\ last'.leak = 0]_vars

C15_Witness ==
    /\ last.op = "Resize" /\ last.st = "alloc" /\ last.req = 3
    /\ last.size0 = 2 /\ last.cap0 = 2
    /\ vec[last.x].size_ = 2 /\ vec[last.x].capacity_ = 2
    /\ Index(heap, vec[last.x], 0) # Index(heap, vec[last.x], 1)

\* C16: N PushBack calls on an empty vector, N >= 1, construct fewer than 3N
\* elements in all: one per call and one per element a reallocation transfers.
RECURSIVE PushCost(_, _, _)
PushCost(H, V, n) ==
    IF n = 0 THEN 0
    ELSE LET r == EmplaceOp(H, V, V.size_, Default, 0)
         IN r.ctors + PushCost(r.h, r.v, n - 1)

C16_AmortizedPushBack ==
    /\ \A x \in Names :
          (plog[x].valid /\ Len(plog[x].seq) >= 1) =>
              /\ plog[x].ctors < 3 * Len(plog[x].seq)
              /\ plog[x].ctors = PushCost(heap, EmptyVector, Len(plog[x].seq))
    /\ last.op = "Vector" =>
          \A n \in 1..MaxPush : PushCost(heap, vec[last.x], n) < 3 * n

C16_Witness ==
    /\ plog["a"].valid /\ Len(plog["a"].seq) = 4 /\ plog["a"].ctors = 7
    /\ last.op = "PushBack" /\ vec["a"].size_ = 4 /\ vec["a"].capacity_ = 4

\* C17: Swap exchanges the buffers, capacities, sizes and elements of the two
\* vectors, touches no element, returns normally, and a second Swap gives
\* both vectors back as they were.
C17_Swap ==
    [][last'.op = "Swap" =>
        LET x == last'.x
            y == last'.y
            again == SwapOp(vec'[x], vec'[y])
        IN /\ last'.ok
           /\ vec'[x].buffer_ = vec[y].buffer_ /\ vec'[y].buffer_ = vec[x].buffer_
           /\ vec'[x].capacity_ = vec[y].capacity_ /\ vec'[y].capacity_ = vec[x].capacity_
           /\ vec'[x].size_ = vec[y].size_ /\ vec'[y].size_ = vec[x].size_
           /\ Elems(heap', vec'[x]) = Elems(heap, vec[y])
           /\ Elems(heap', vec'[y]) = Elems(heap, vec[x])
           /\ heap' = heap
           /\ again.v = vec[x] /\ again.other = vec[y]]_vars

C17_Witness ==
    /\ last.op = "Swap" /\ last.x # last.y
    /\ vec[last.x].size_ = 2 /\ vec[last.y].size_ = 1 /\ last.size0 = 1
    /\ vec[last.x].capacity_ # vec[last.y].capacity_
    /\ Index(heap, vec[last.x], 0) # Index(heap, vec[last.y], 0)

\* C18: size <= capacity for every vector after every call, returned or
\* thrown.
C18_SizeWithinCapacity ==
    \A x \in Names : vec[x].size_ <= vec[x].capacity_ /\ vec[x].capacity_ = Len(Slots(heap, vec[x]))

C18_Witness ==
    /\ last.op = "Resize" /\ last.st = "elem" /\ last.size0 = 1
    /\ vec[last.x].capacity_ > last.cap0
    /\ vec[last.x].size_ < vec[last.x].capacity_
    /\ \E y \in Names \ {last.x} : vec[y].size_ = vec[y].capacity_ /\ vec[y].size_ > 0

\* C19: an insertion made when size = capacity allocates a new buffer of
\* capacity max(1, 2 * capacity); an insertion made when size < capacity
\* keeps the capacity and the buffer.
C19_Growth ==
    [][(last'.op \in {"Insert", "PushBack"} /\ last'.ok) =>
        LET x == last'.x
        IN IF vec[x].size_ = vec[x].capacity_
           THEN /\ vec'[x].capacity_ = Max(1, 2 * vec[x].capacity_)
                /\ vec'[x].buffer_ # vec[x].buffer_ /\ vec'[x].buffer_ # nullptr
                /\ Len(Slots(heap', vec'[x])) = vec'[x].capacity_
           ELSE /\ vec'[x].capacity_ = vec[x].capacity_
                /\ vec'[x].buffer_ = vec[x].buffer_]_vars

C19_Witness ==
    /\ last.op = "PushBack" /\ last.ok /\ last.size0 = 0 /\ last.cap0 = 0
    /\ vec[last.x].capacity_ = 1 /\ vec[last.x].size_ = 1
    /\ Index(heap, vec[last.x], 0) = last.val /\ last.val # Default

\* C20: for a copy-constructible type with a throwing move, a Reserve(n),
\* n > capacity, in which the copy of an element throws destroys the copies
\* made, releases the new buffer and leaves the vector and its elements as
\* before the call; the transfer moves only when the move cannot throw or
\* there is no copy constructor.
C20_ReserveTransfer ==
    [][last'.op = "Reserve" =>
        LET x == last'.x
            k == last'.arg
        IN /\ (last'.st = "elem" /\ T.copyable /\ ~T.nothrowMove) =>
                /\ last'.req > vec[x].capacity_
                /\ vec' = vec /\ heap' = heap
                /\ last'.leak = 0
           /\ T.nothrowMove => last'.st # "elem"
           /\ (last'.st = "elem" /\ ~T.copyable) =>
                /\ vec'[x] = vec[x]
                /\ \A i \in 0..(k - 2) : Index(heap', vec'[x], i) = MovedFrom]_vars

C20_Witness ==
    /\ last.op = "Reserve" /\ last.st = "elem" /\ last.arg = 2
    /\ T.copyable /\ ~T.nothrowMove
    /\ last.size0 >= 2 /\ last.req > last.cap0
    /\ vec[last.x].capacity_ = last.cap0
    /\ Index(heap, vec[last.x], 0) # Index(heap, vec[last.x], 1)

\* C21: a Vector(size) or Vector(other) in which the construction of an
\* element throws destroys the elements it constructed, releases its storage
\* and leaves no vector; other keeps its size, capacity and elements.
C21_FailedConstruction ==
    [][(last'.op \in {"VectorSized", "VectorCopy"} /\ last'.st = "elem") =>
        LET x == last'.x
        IN /\ ~vec[x].alive /\ ~vec'[x].alive
           /\ vec'[x].buffer_ = nullptr
           /\ last'.leak = 0
           /\ heap' = heap
           /\ \A y \in Names \ {x} :
                 vec'[y] = vec[y] /\ Elems(heap', vec'[y]) = Elems(heap, vec[y])]_vars

C21_Witness ==
    /\ last.op = "VectorCopy" /\ last.st = "elem" /\ last.arg = 2
    /\ ~vec[last.x].alive
    /\ vec[last.y].size_ = 2
    /\ Index(heap, vec[last.y], 0) # Index(heap, vec[last.y], 1)

\* C22: no Reserve, Resize, Emplace/Insert/PushBack, Erase, PopBack or copy
\* assignment, returned or thrown, lowers the capacity of a vector; a step
\* that lowers it is a move out of the vector, a move assignment into it or
\* a Swap.
C22_CapacityMonotone ==
    [][\A z \in Names :
        (vec[z].alive /\ vec'[z].alive /\ vec'[z].capacity_ < vec[z].capacity_) =>
            \/ last'.op = "VectorMove" /\ z = last'.y
            \/ last'.op = "MoveAssign" /\ z \in {last'.x, last'.y}
            \/ last'.op = "Swap" /\ z \in {last'.x, last'.y}]_vars

C22_Witness ==
    /\ last.op = "CopyAssign" /\ last.ok /\ last.x # last.y
    /\ last.cap0 = 3 /\ last.size0 = 2
    /\ vec[last.x].capacity_ = 3 /\ vec[last.x].size_ = 0
    /\ vec[last.y].capacity_ = 0

\* C23: Insert at offset k of a copy of the vector's own element in slot i
\* inserts the value slot i held before the call, with and without
\* reallocation: the result is old[0..k) ++ [old[i]] ++ old[k..size).
C23_InsertOwnElement ==
    [][(last'.op = "InsertSelf" /\ last'.ok) =>
        LET x == last'.x
            k == last'.arg
            i == last'.val
            old == Elems(heap, vec[x])
        IN /\ Elems(heap', vec'[x]) = SubSeq(old, 1, k) \o <<old[i + 1]>> \o SubSeq(old, k + 1, Len(old))
           /\ Index(heap', vec'[x], k) = Index(heap, vec[x], i)
           /\ vec'[x].size_ = vec[x].size_ + 1
           /\ last'.ret = k]_vars

C23_Witness ==
    /\ last.op = "InsertSelf" /\ last.ok /\ last.arg = 0 /\ last.val = 1
    /\ last.size0 = 2 /\ last.cap0 = 3 /\ vec[last.x].capacity_ = 3
    /\ Index(heap, vec[last.x], 0) = Index(heap, vec[last.x], 2)
    /\ Index(heap, vec[last.x], 0) # Index(heap, vec[last.x], 1)

====
